---- MODULE Spec2Model ----
(***************************************************************************)
(* Vote integrity engine of votacion_URBISOL: credentials (vote_tokens),   *)
(* council ballots (votes), fiscal ballots (fiscal_votes) and the HTTP     *)
(* handlers that issue credentials and cast ballots, as concurrent         *)
(* requests against one PostgreSQL store (READ COMMITTED, row locks,       *)
(* unique indexes).  Each await point of a handler is one step.            *)
(***************************************************************************)
EXTENDS Integers, Sequences, FiniteSets, TLC

\* ---------------------------------------------------------------- bounds
MaxReq == 2          \* requests in flight at the same time
MaxTokens == 2       \* rows of vote_tokens
MaxRegs == 2         \* rows of registrations
MaxClock == 2        \* last instant of the clock
NumUnits == 1        \* rows of units
NumChoices == 1      \* council lists / fiscal lists of an election
MaxElections == 2    \* rows of elections
MaxChain == 2        \* ballots of one chain handed to the verifier

Slots == 1..MaxReq
Units == 1..NumUnits
Choices == 1..NumChoices
Elections == 1..MaxElections

\* SQL NULL for timestamps and ids (clock instants and row ids start at 1)
NULL == 0
\* digests and the other text columns are sequences of numbers; SQL NULL in
\* a text column is a text no digest and no marker equals
NullText == <<NULL>>
\* a secret that hashes to no stored token_hash
UnknownSecret == 0

\* voting window of every election: [vote_open_at, vote_close_at]
VoteWindow == [open |-> 1, close |-> MaxClock - 1]

VARIABLES
  clock,          \* now() / NOW()
  elections,      \* elections: id -> [is_active, vote_open_at, vote_close_at, closed_at]
  election_seals, \* election_seals: rows [election_id, kind, global_hash, total_votes]
  lists,          \* candidates and fiscal_lists: <<category, election_id, list>>
  registrations,  \* registrations: id -> [election_id, unit_id, status]
  vote_tokens,    \* vote_tokens: id -> [election_id, registration_id, unit_id, status, used_at]
  votes,          \* votes (council ballots), committed rows in commit order
  fiscal_votes,   \* fiscal_votes, committed rows in commit order
  req,            \* requests in flight: slot -> handler position and locals
  verifier,       \* the process of scripts/verify_chain.mjs: position and output
  tampered        \* the ballot row changed behind the application's back, if any

vars == <<clock, elections, election_seals, lists, registrations, vote_tokens,
          votes, fiscal_votes, req, verifier, tampered>>

db == <<elections, election_seals, lists, registrations, vote_tokens, votes,
        fiscal_votes>>

\* what the request handlers never touch
offline == <<verifier, tampered>>

\* ------------------------------------------------------------- requests
Idle == [kind |-> "idle", pc |-> "idle", arg |-> 0, choice |-> 0, el |-> 0,
         tx |-> 0, tid |-> 0, st |-> "-", unit |-> 0,
         hc |-> FALSE, hf |-> FALSE, snap |-> {}, err |-> "-", resp |-> "-",
         committed |-> FALSE]

CastKinds == {"council", "fiscal"}

\* a slot may start a request only when every lower slot is busy
CanStart(r) ==
  /\ req[r].kind = "idle"
  /\ \A s \in Slots : s < r => req[s].kind # "idle"

\* the request has answered: what is kept of it is the request (kind, arg),
\* the credential row it resolved (tid, st), whether its transaction
\* committed, the error code it caught, and the response
Done(rec, resp) ==
  [Idle EXCEPT !.kind = rec.kind, !.pc = "done", !.arg = rec.arg, !.el = rec.el,
               !.tid = rec.tid, !.st = rec.st, !.unit = rec.unit,
               !.committed = rec.committed, !.err = rec.err, !.resp = resp]

\* ------------------------------------------------------ pure functions
\* getActiveElection: SELECT * FROM elections WHERE is_active=true LIMIT 1
ActiveElections == {e \in 1..Len(elections) : elections[e].is_active}

\* mutant: the window has no end
inWindow_NoEnd(n, start, end) == n >= start

\* inWindow(n, start, end)
inWindow(n, start, end) == n >= start /\ n <= end

\* hashToken is injective on the secrets in use: a secret names at most one row
TokenByHash(secret, e) ==
  {t \in 1..Len(vote_tokens) : t = secret /\ vote_tokens[t].election_id = e}

\* the row lock on vote_tokens row t is held by a cast transaction that has
\* run SELECT ... FOR UPDATE and has neither committed nor rolled back
InTx(rec) == rec.kind \in CastKinds /\ rec.pc \in {"insert", "hascouncil", "commit"}

\* mutant: the SELECT of a cast takes no row lock
RowLockedByOther_NoLock(t, r) == FALSE

RowLockedByOther(t, r) ==
  \E s \in Slots \ {r} : InTx(req[s]) /\ req[s].tid = t

\* mutant: a transaction that holds its credential lock already stands in
\* the way of every INSERT with its unique key
PendingInsert_FromLock(rec) ==
  rec.kind \in CastKinds /\ rec.pc \in {"insert", "hascouncil", "commit"}

\* uncommitted ballot rows of other transactions
PendingInsert(rec) == rec.kind \in CastKinds /\ rec.pc \in {"hascouncil", "commit"}

\* mutant: the unique index on votes is missing
VotesKeyConflict_NoIndex(row, e, u) == FALSE

\* votes: UNIQUE(unit_id)
VotesKeyConflict(row, e, u) == row.unit_id = u

\* mutant: the unique index on fiscal_votes is missing
FiscalKeyConflict_NoIndex(row, e, u) == FALSE

\* fiscal_votes: UNIQUE(election_id, unit_id)
FiscalKeyConflict(row, e, u) == row.election_id = e /\ row.unit_id = u

KeyConflict(kind, row, e, u) ==
  IF kind = "council" THEN VotesKeyConflict(row, e, u) ELSE FiscalKeyConflict(row, e, u)

Table(kind) == IF kind = "council" THEN votes ELSE fiscal_votes

\* the committed table already holds a row with the same unique key
DuplicateKey(kind, e, u) ==
  \E i \in 1..Len(Table(kind)) : KeyConflict(kind, Table(kind)[i], e, u)

\* another transaction holds an uncommitted row with the same unique key:
\* the INSERT waits for that transaction to end
InsertBlocked(r, kind, e, u) ==
  \E s \in Slots \ {r} :
    /\ PendingInsert(req[s]) /\ req[s].kind = kind
    /\ KeyConflict(kind, [election_id |-> req[s].el, unit_id |-> req[s].unit], e, u)

\* SELECT 1 FROM votes WHERE election_id=$1 AND unit_id=$2 LIMIT 1
HasCouncil(e, u) ==
  \E i \in 1..Len(votes) : votes[i].election_id = e /\ votes[i].unit_id = u

\* SELECT 1 FROM fiscal_votes WHERE election_id=$1 AND unit_id=$2 LIMIT 1
HasFiscal(e, u) ==
  \E i \in 1..Len(fiscal_votes) :
    fiscal_votes[i].election_id = e /\ fiscal_votes[i].unit_id = u

\* the lists of election e that ballots can name: the council lists
\* ('Lista 1', ...) and the fiscal lists the admin has entered
ListsOf(e) == {<<kind, e, c>> : kind \in CastKinds, c \in Choices}

\* the verifier has not been started; no row has been tampered with
VerifierIdle == [pc |-> "idle", el |-> NULL, kind |-> "-", rows |-> <<>>,
                 globalHash |-> NullText, out |-> <<>>, exit |-> -1]

Untouched == [kind |-> "-", election_id |-> NULL, position |-> NULL, field |-> "-",
              sealed |-> FALSE]

\* ----------------------------------------------------------------- Init
Init ==
  /\ clock = 1
  /\ elections = <<[is_active |-> TRUE, vote_open_at |-> VoteWindow.open,
                    vote_close_at |-> VoteWindow.close, closed_at |-> NULL]>>
  /\ election_seals = {}
  /\ lists = ListsOf(1)
  /\ registrations = <<>>
  /\ vote_tokens = <<>>
  /\ votes = <<>>
  /\ fiscal_votes = <<>>
  /\ req = [r \in Slots |-> Idle]
  /\ verifier = VerifierIdle
  /\ tampered = Untouched

\* the clock advances
Tick ==
  /\ clock < MaxClock
  /\ clock' = clock + 1
  /\ UNCHANGED <<db, req, offline>>

\* POST /registro: a neighbour of unit u asks to be registered
Register(u) ==
  /\ Len(registrations) < MaxRegs
  /\ ActiveElections # {}
  /\ \E e \in ActiveElections :
       registrations' = Append(registrations,
         [election_id |-> e, unit_id |-> u, status |-> "PENDING"])
  /\ UNCHANGED <<clock, lists, elections, election_seals, vote_tokens, votes,
                 fiscal_votes, req, offline>>

\* ------------------------------------- POST /votar/:token (council) and
\* ------------------------------------- POST /votar/:token/fiscales
\* getActiveElection, now(), inWindow, then pool.connect() and BEGIN, which
\* fixes NOW() of the transaction
CastStart(r, kind, secret, ch) ==
  /\ CanStart(r)
  /\ LET rec == [Idle EXCEPT !.kind = kind, !.arg = secret, !.choice = ch] IN
     IF ActiveElections = {}
     THEN req' = [req EXCEPT ![r] = Done(rec, "no_election_500")]
     ELSE \E e \in ActiveElections :
            IF ~inWindow(clock, elections[e].vote_open_at, elections[e].vote_close_at)
            THEN req' = [req EXCEPT ![r] =
                   Done([rec EXCEPT !.el = e],
                        IF kind = "council" THEN "closed" ELSE "vote_preview")]
            ELSE req' = [req EXCEPT ![r] =
                   [rec EXCEPT !.el = e, !.tx = clock, !.pc = "select"]]
  /\ UNCHANGED <<clock, db, offline>>

\* mutant: only a REVOKED credential is turned away
NotActive_OnlyRevoked(st) == st = "REVOKED"

\* vt.status !== "ACTIVE"
NotActive(st) == st # "ACTIVE"

\* SELECT * FROM vote_tokens WHERE token_hash=$1 AND election_id=$2 FOR UPDATE
CastSelect(r) ==
  /\ req[r].kind \in CastKinds /\ req[r].pc = "select"
  /\ LET found == TokenByHash(req[r].arg, req[r].el) IN
     IF found = {}
     THEN req' = [req EXCEPT ![r] = Done(@, "invalid_404")]
     ELSE \E t \in found :
            /\ ~RowLockedByOther(t, r)
            /\ LET rec == [req[r] EXCEPT !.tid = t, !.st = vote_tokens[t].status,
                                         !.unit = vote_tokens[t].unit_id] IN
               IF NotActive(vote_tokens[t].status)
               THEN req' = [req EXCEPT ![r] = Done(rec, "vote_used")]
               ELSE req' = [req EXCEPT ![r] = [rec EXCEPT !.pc = "insert"]]
  /\ UNCHANGED <<clock, db, offline>>

\* BallotRow: the row of the INSERT; cast_at defaults to NOW(); the INSERT
\* names no chain column, so chain_position, previous_hash and vote_hash
\* are NULL
BallotRow(rec) ==
  [election_id |-> rec.el, unit_id |-> rec.unit, choice_id |-> rec.choice,
   token_id |-> rec.tid, cast_at |-> rec.tx,
   chain_position |-> NULL, previous_hash |-> NullText, vote_hash |-> NullText]

\* mutant: the catch block does not roll back, the pending row stays
AfterRollback_Keeps(kind, rec) ==
  IF rec.kind = kind /\ PendingInsert(rec)
  THEN Append(Table(kind), BallotRow(rec))
  ELSE Table(kind)

\* catch (e) { await c.query("ROLLBACK"); ... }: the table of that kind once
\* the transaction of rec is rolled back -- its pending row is discarded
AfterRollback(kind, rec) == Table(kind)

\* mutant: the catch block does not tell 23505 from other errors
OnUniqueViolation_Fatal(kind) == "error_500"

\* response of the catch block for error code 23505
OnUniqueViolation(kind) == IF kind = "council" THEN "vote_used" ELSE "redirect_ballot"

\* votes.candidate_id REFERENCES candidates(id), fiscal_votes.fiscal_list_id
\* REFERENCES fiscal_lists(id): the INSERT names a list that is not there
ListMissing(kind, e, c) == <<kind, e, c>> \notin lists

\* INSERT INTO votes(...) / INSERT INTO fiscal_votes(...): the unique index
\* is checked when the row is inserted, the foreign keys at the end of the
\* statement; an error other than 23505 is answered with status 500
CastInsert(r) ==
  /\ req[r].kind \in CastKinds /\ req[r].pc = "insert"
  /\ ~InsertBlocked(r, req[r].kind, req[r].el, req[r].unit)
  /\ IF DuplicateKey(req[r].kind, req[r].el, req[r].unit)
     THEN /\ req' = [req EXCEPT ![r] =
               Done([@ EXCEPT !.err = "23505"], OnUniqueViolation(req[r].kind))]
          /\ votes' = AfterRollback("council", req[r])
          /\ fiscal_votes' = AfterRollback("fiscal", req[r])
     ELSE IF ListMissing(req[r].kind, req[r].el, req[r].choice)
     THEN /\ req' = [req EXCEPT ![r] = Done([@ EXCEPT !.err = "other"], "error_500")]
          /\ votes' = AfterRollback("council", req[r])
          /\ fiscal_votes' = AfterRollback("fiscal", req[r])
     ELSE /\ req' = [req EXCEPT ![r] =
               [@ EXCEPT !.pc = IF req[r].kind = "council" THEN "commit" ELSE "hascouncil"]]
          /\ UNCHANGED <<votes, fiscal_votes>>
  /\ UNCHANGED <<clock, lists, elections, election_seals, registrations, vote_tokens, offline>>

\* fiscal only: SELECT 1 FROM votes ...; if found UPDATE vote_tokens SET status='USED'
FiscalHasCouncil(r) ==
  /\ req[r].kind = "fiscal" /\ req[r].pc = "hascouncil"
  /\ req' = [req EXCEPT ![r] =
       [@ EXCEPT !.hc = HasCouncil(req[r].el, req[r].unit), !.pc = "commit"]]
  /\ UNCHANGED <<clock, db, offline>>

\* mutant: the fiscal cast retires the credential without looking for the
\* council ballot
RetiresToken_Always(rec) == rec.kind = "fiscal"

\* does the cast transaction write status='USED' on its credential:
\* only the fiscal handler does, if (hasCouncil.rows.length)
RetiresToken(rec) == rec.kind = "fiscal" /\ rec.hc

\* the row written by UPDATE vote_tokens SET status='USED', used_at=NOW() WHERE id=$1
RetireRow(row, now) == [row EXCEPT !.status = "USED", !.used_at = now]

\* COMMIT, then audit(...) and the response; a failing audit lands in catch
CastCommit(r) ==
  /\ req[r].kind \in CastKinds /\ req[r].pc = "commit"
  /\ IF req[r].kind = "council"
     THEN votes' = Append(votes, BallotRow(req[r])) /\ UNCHANGED fiscal_votes
     ELSE fiscal_votes' = Append(fiscal_votes, BallotRow(req[r])) /\ UNCHANGED votes
  /\ IF RetiresToken(req[r])
     THEN vote_tokens' = [vote_tokens EXCEPT ![req[r].tid] = RetireRow(@, req[r].tx)]
     ELSE UNCHANGED vote_tokens
  /\ \E auditOk \in BOOLEAN :
       req' = [req EXCEPT ![r] =
         Done([@ EXCEPT !.committed = TRUE, !.err = IF auditOk THEN "-" ELSE "other"],
              IF ~auditOk THEN "error_500"
              ELSE IF req[r].kind = "fiscal" /\ req[r].hc THEN "vote_done"
              ELSE "redirect_ballot")]
  /\ UNCHANGED <<clock, lists, elections, election_seals, registrations, offline>>

\* a query inside the transaction throws (not 23505): ROLLBACK, status 500
CastFail(r) ==
  /\ InTx(req[r])
  /\ req' = [req EXCEPT ![r] = Done([@ EXCEPT !.err = "other"], "error_500")]
  /\ votes' = AfterRollback("council", req[r])
  /\ fiscal_votes' = AfterRollback("fiscal", req[r])
  /\ UNCHANGED <<clock, lists, elections, election_seals, registrations, vote_tokens, offline>>

\* ------------------------------------------------- GET /votar/:token
\* if (vt.status === "ACTIVE") inside if (hasCouncil && hasFiscal)
RetireNeeded(st) == st = "ACTIVE"

\* getActiveElection, then SELECT vt.* FROM vote_tokens vt JOIN registrations
\* ... WHERE vt.token_hash=$1 AND vt.election_id=$2 (no lock)
ViewStart(r, secret) ==
  /\ CanStart(r)
  /\ LET rec == [Idle EXCEPT !.kind = "view", !.arg = secret] IN
     IF ActiveElections = {}
     THEN req' = [req EXCEPT ![r] = Done(rec, "no_election_500")]
     ELSE \E e \in ActiveElections :
            LET found == TokenByHash(secret, e) IN
            IF found = {}
            THEN req' = [req EXCEPT ![r] = Done([rec EXCEPT !.el = e], "invalid_404")]
            ELSE \E t \in found :
                   req' = [req EXCEPT ![r] =
                     [rec EXCEPT !.el = e, !.tid = t, !.st = vote_tokens[t].status,
                                 !.unit = vote_tokens[t].unit_id, !.pc = "v_ballots"]]
  /\ UNCHANGED <<clock, db, offline>>

\* now(), inWindow, SELECT 1 FROM votes ..., SELECT 1 FROM fiscal_votes ...,
\* then the branch on hasCouncil / hasFiscal.  Ballot rows are never deleted,
\* so two reads that both find a row still find it at the later instant.
ViewBallots(r) ==
  /\ req[r].kind = "view" /\ req[r].pc = "v_ballots"
  /\ LET e == req[r].el
         hc == HasCouncil(e, req[r].unit)
         hf == HasFiscal(e, req[r].unit)
         rec == [req[r] EXCEPT !.hc = hc, !.hf = hf] IN
     req' = [req EXCEPT ![r] =
       IF ~inWindow(clock, elections[e].vote_open_at, elections[e].vote_close_at)
       THEN Done(req[r], "vote_preview")
       ELSE IF hc /\ hf
       THEN IF RetireNeeded(rec.st) THEN [rec EXCEPT !.pc = "v_retire"]
            ELSE Done(rec, "vote_used")
       ELSE IF ~hc THEN Done(rec, "vote_council")
       ELSE Done(rec, "vote_fiscal")]
  /\ UNCHANGED <<clock, db, offline>>

ViewRetire(r) ==
  /\ req[r].kind = "view" /\ req[r].pc = "v_retire"
  /\ ~RowLockedByOther(req[r].tid, r)
  /\ vote_tokens' = [vote_tokens EXCEPT ![req[r].tid] = RetireRow(@, clock)]
  /\ req' = [req EXCEPT ![r] = Done(@, "vote_used")]
  /\ UNCHANGED <<clock, lists, elections, election_seals, registrations, votes,
                 fiscal_votes, offline>>

\* ------------------------- POST /admin/solicitudes/:id/aprobar, /reemitir
IssueKinds == {"aprobar", "reemitir"}

\* token rows that requests in flight are still going to insert
Issuing == {r \in Slots : req[r].kind \in IssueKinds /\ req[r].pc # "done"}

\* mutant: the UPDATE of the review does not ask for status='PENDING'
StillPending_Any(st) == TRUE

\* WHERE ... AND status='PENDING' of the two review UPDATEs; the UPDATE
\* locks the row, so of two reviews of one registration the second finds
\* the status the first one wrote
StillPending(st) == st = "PENDING"

\* POST /admin/solicitudes/:id/aprobar: getActiveElection, then
\* UPDATE registrations SET status='APPROVED' WHERE id=$1 AND election_id=$3
\* AND status='PENDING' RETURNING id, unit_id, email
AprobarStart(r, id) ==
  /\ CanStart(r)
  /\ Len(vote_tokens) + Cardinality(Issuing) < MaxTokens
  /\ LET rec == [Idle EXCEPT !.kind = "aprobar", !.arg = id] IN
     IF ActiveElections = {}
     THEN /\ req' = [req EXCEPT ![r] = Done(rec, "no_election_500")]
          /\ UNCHANGED registrations
     ELSE \E e \in ActiveElections :
            IF /\ id \in 1..Len(registrations)
               /\ registrations[id].election_id = e
               /\ StillPending(registrations[id].status)
            THEN /\ registrations' = [registrations EXCEPT ![id].status = "APPROVED"]
                 /\ req' = [req EXCEPT ![r] =
                      [rec EXCEPT !.el = e, !.unit = registrations[id].unit_id,
                                  !.pc = "revoke"]]
            ELSE /\ req' = [req EXCEPT ![r] = Done([rec EXCEPT !.el = e], "redirect_detail")]
                 /\ UNCHANGED registrations
  /\ UNCHANGED <<clock, lists, elections, election_seals, vote_tokens, votes,
                 fiscal_votes, offline>>

\* POST /admin/solicitudes/:id/rechazar: getActiveElection, then
\* UPDATE registrations SET status='REJECTED' WHERE id=$1 AND election_id=$4
\* AND status='PENDING' RETURNING id, unit_id
Rechazar(r, id) ==
  /\ CanStart(r)
  /\ LET rec == [Idle EXCEPT !.kind = "rechazar", !.arg = id] IN
     IF ActiveElections = {}
     THEN /\ req' = [req EXCEPT ![r] = Done(rec, "no_election_500")]
          /\ UNCHANGED registrations
     ELSE \E e \in ActiveElections :
            /\ req' = [req EXCEPT ![r] = Done([rec EXCEPT !.el = e], "redirect_detail")]
            /\ IF /\ id \in 1..Len(registrations)
                  /\ registrations[id].election_id = e
                  /\ StillPending(registrations[id].status)
               THEN registrations' = [registrations EXCEPT ![id].status = "REJECTED"]
               ELSE UNCHANGED registrations
  /\ UNCHANGED <<clock, lists, elections, election_seals, vote_tokens, votes,
                 fiscal_votes, offline>>

\* POST /admin/solicitudes/:id/reemitir: getActiveElection, then
\* SELECT id, unit_id, email FROM registrations WHERE id=$1 AND election_id=$2
\* AND status='APPROVED'
ReemitirStart(r, id) ==
  /\ CanStart(r)
  /\ Len(vote_tokens) + Cardinality(Issuing) < MaxTokens
  /\ LET rec == [Idle EXCEPT !.kind = "reemitir", !.arg = id] IN
     IF ActiveElections = {}
     THEN req' = [req EXCEPT ![r] = Done(rec, "no_election_500")]
     ELSE \E e \in ActiveElections :
            IF /\ id \in 1..Len(registrations)
               /\ registrations[id].election_id = e
               /\ registrations[id].status = "APPROVED"
            THEN req' = [req EXCEPT ![r] =
                   [rec EXCEPT !.el = e, !.unit = registrations[id].unit_id,
                               !.pc = "revoke"]]
            ELSE req' = [req EXCEPT ![r] = Done([rec EXCEPT !.el = e], "reissue_400")]
  /\ UNCHANGED <<clock, db, offline>>

\* rows matched by WHERE election_id=$1 AND unit_id=$2 AND status='ACTIVE'
ActiveTokens(e, u) ==
  {t \in 1..Len(vote_tokens) :
     /\ vote_tokens[t].election_id = e
     /\ vote_tokens[t].unit_id = u
     /\ vote_tokens[t].status = "ACTIVE"}

\* vote_tokens after UPDATE ... SET status='REVOKED' has run over the rows
\* of its snapshot; a row is rewritten only if it still matches the WHERE
Revoked(rows) ==
  [t \in 1..Len(vote_tokens) |->
     IF t \in rows /\ vote_tokens[t].status = "ACTIVE"
     THEN [vote_tokens[t] EXCEPT !.status = "REVOKED"]
     ELSE vote_tokens[t]]

\* UPDATE vote_tokens SET status='REVOKED' WHERE election_id=$1 AND unit_id=$2
\* AND status='ACTIVE': runs at once when no matching row is locked, else it
\* waits on the lock with the rows of its snapshot
IssueRevoke(r) ==
  /\ req[r].kind \in IssueKinds /\ req[r].pc = "revoke"
  /\ LET rows == ActiveTokens(req[r].el, req[r].unit) IN
     IF \E t \in rows : RowLockedByOther(t, r)
     THEN /\ req' = [req EXCEPT ![r] = [@ EXCEPT !.snap = rows, !.pc = "revoke_wait"]]
          /\ UNCHANGED vote_tokens
     ELSE /\ vote_tokens' = Revoked(rows)
          /\ req' = [req EXCEPT ![r] = [@ EXCEPT !.pc = "issue"]]
  /\ UNCHANGED <<clock, lists, elections, election_seals, registrations, votes,
                 fiscal_votes, offline>>

\* the lock holder has ended: the UPDATE re-checks and rewrites its rows
IssueRevokeWake(r) ==
  /\ req[r].kind \in IssueKinds /\ req[r].pc = "revoke_wait"
  /\ \A t \in req[r].snap : ~RowLockedByOther(t, r)
  /\ vote_tokens' = Revoked(req[r].snap)
  /\ req' = [req EXCEPT ![r] = [@ EXCEPT !.snap = {}, !.pc = "issue"]]
  /\ UNCHANGED <<clock, lists, elections, election_seals, registrations, votes,
                 fiscal_votes, offline>>

\* INSERT INTO vote_tokens(election_id, registration_id, unit_id, token_hash,
\* issued_via): status defaults to 'ACTIVE', used_at to NULL
IssueInsert(r) ==
  /\ req[r].kind \in IssueKinds /\ req[r].pc = "issue"
  /\ vote_tokens' = Append(vote_tokens,
       [election_id |-> req[r].el, registration_id |-> req[r].arg,
        unit_id |-> req[r].unit, status |-> "ACTIVE", used_at |-> NULL])
  /\ req' = [req EXCEPT ![r] = Done([@ EXCEPT !.tid = Len(vote_tokens) + 1], "link_issued")]
  /\ UNCHANGED <<clock, lists, elections, election_seals, registrations, votes,
                 fiscal_votes, offline>>

\* the response has been sent; the slot is free again
Finish(r) ==
  /\ req[r].pc = "done"
  /\ req' = [req EXCEPT ![r] = Idle]
  /\ UNCHANGED <<clock, db, offline>>

\* secrets a request can present: those handed out so far, or one that
\* matches no row
Secrets == {UnknownSecret} \cup (1..Len(vote_tokens))

Next ==
  \/ Tick
  \/ \E u \in Units : Register(u)
  \/ \E r \in Slots, kind \in CastKinds, s \in Secrets, ch \in Choices :
       CastStart(r, kind, s, ch)
  \/ \E r \in Slots : CastSelect(r)
  \/ \E r \in Slots : CastInsert(r)
  \/ \E r \in Slots : FiscalHasCouncil(r)
  \/ \E r \in Slots : CastCommit(r)
  \/ \E r \in Slots : CastFail(r)
  \/ \E r \in Slots, s \in Secrets : ViewStart(r, s)
  \/ \E r \in Slots : ViewBallots(r)
  \/ \E r \in Slots : ViewRetire(r)
  \/ \E r \in Slots, id \in 1..MaxRegs : AprobarStart(r, id)
  \/ \E r \in Slots, id \in 1..MaxRegs : ReemitirStart(r, id)
  \/ \E r \in Slots : IssueRevoke(r)
  \/ \E r \in Slots : IssueRevokeWake(r)
  \/ \E r \in Slots : IssueInsert(r)
  \/ \E r \in Slots : Finish(r)

Spec == Init /\ [][Next]_vars

\* -------------------------------------------- the review of registrations
\* neighbours register and the admins approve, reject and re-issue with
\* requests that overlap; no cast holds a credential lock
NextReview ==
  \/ \E u \in Units : Register(u)
  \/ \E r \in Slots, id \in 1..MaxRegs : AprobarStart(r, id)
  \/ \E r \in Slots, id \in 1..MaxRegs : Rechazar(r, id)
  \/ \E r \in Slots, id \in 1..MaxRegs : ReemitirStart(r, id)
  \/ \E r \in Slots : IssueRevoke(r)
  \/ \E r \in Slots : IssueInsert(r)
  \/ \E r \in Slots : Finish(r)

SpecReview == Init /\ [][NextReview]_vars

\* ------------------------------------------ casts and issuance, scheduled
\* the requests that take or wait for the lock of a credential, while the
\* voting window is open
NextLive ==
  \/ \E u \in Units : Register(u)
  \/ \E r \in Slots, kind \in CastKinds, s \in Secrets, ch \in Choices :
       CastStart(r, kind, s, ch)
  \/ \E r \in Slots : CastSelect(r)
  \/ \E r \in Slots : CastInsert(r)
  \/ \E r \in Slots : FiscalHasCouncil(r)
  \/ \E r \in Slots : CastCommit(r)
  \/ \E r \in Slots : CastFail(r)
  \/ \E r \in Slots, id \in 1..MaxRegs : AprobarStart(r, id)
  \/ \E r \in Slots, id \in 1..MaxRegs : ReemitirStart(r, id)
  \/ \E r \in Slots : IssueRevoke(r)
  \/ \E r \in Slots : IssueRevokeWake(r)
  \/ \E r \in Slots : IssueInsert(r)
  \/ \E r \in Slots : Finish(r)

\* node runs the continuation of every await whose query has answered, and
\* PostgreSQL answers every statement that waits for nothing; a statement
\* that waits for a lock is served from the lock's queue when the holder
\* ends, so it is not overtaken for ever
Scheduling ==
  \A r \in Slots :
    /\ SF_vars(CastSelect(r))
    /\ SF_vars(CastInsert(r))
    /\ WF_vars(FiscalHasCouncil(r))
    /\ WF_vars(CastCommit(r))

SpecLive == Init /\ [][NextLive]_vars /\ Scheduling
\* ------------------------------------------- campaigns (admin, elections)
\* POST /admin/elections/new: INSERT INTO elections(..., is_active) VALUES
\* (..., false); the two council lists of the new election are its Choices
ElectionNew ==
  /\ Len(elections) < MaxElections
  /\ elections' = Append(elections,
       [is_active |-> FALSE, vote_open_at |-> VoteWindow.open,
        vote_close_at |-> VoteWindow.close, closed_at |-> NULL])
  /\ lists' = lists \cup {<<"council", Len(elections) + 1, c>> : c \in Choices}
  /\ UNCHANGED <<clock, election_seals, registrations, vote_tokens, votes,
                 fiscal_votes, req, offline>>

\* POST /admin/directiva/new, POST /admin/fiscales/new: INSERT INTO candidates
\* / fiscal_lists for the active election
ListNew(kind, c) ==
  /\ \E e \in ActiveElections :
       /\ <<kind, e, c>> \notin lists
       /\ lists' = lists \cup {<<kind, e, c>>}
  /\ UNCHANGED <<clock, elections, election_seals, registrations, vote_tokens,
                 votes, fiscal_votes, req, offline>>

\* mutant: the foreign key of the ballots is declared ON DELETE CASCADE
ListReferenced_Cascade(kind, e, c) == FALSE

\* a ballot row names the list: votes.candidate_id REFERENCES candidates(id),
\* fiscal_votes.fiscal_list_id REFERENCES fiscal_lists(id), no ON DELETE
ListReferenced(kind, e, c) ==
  \E i \in 1..Len(Table(kind)) :
    Table(kind)[i].election_id = e /\ Table(kind)[i].choice_id = c

\* the rows of a ballot table that do not name the list
NotNaming(table, e, c) ==
  SelectSeq(table, LAMBDA row : ~(row.election_id = e /\ row.choice_id = c))

\* POST /admin/directiva/:id/delete, POST /admin/fiscales/:id/delete:
\* DELETE FROM candidates / fiscal_lists WHERE id=$1 AND election_id=$2.
\* A list that a ballot names is kept: the DELETE raises 23503, which the
\* handler does not catch.  With no active election the handler throws
\* before the DELETE
ListDelete(r, kind, c) ==
  /\ CanStart(r)
  /\ LET rec == [Idle EXCEPT !.kind = "list_delete", !.arg = c] IN
     IF ActiveElections = {}
     THEN /\ req' = [req EXCEPT ![r] = Done([rec EXCEPT !.err = "other"], "unhandled")]
          /\ UNCHANGED <<lists, votes, fiscal_votes>>
     ELSE \E e \in ActiveElections :
            IF ListReferenced(kind, e, c)
            THEN /\ req' = [req EXCEPT ![r] =
                      Done([rec EXCEPT !.el = e, !.err = "23503"], "unhandled")]
                 /\ UNCHANGED <<lists, votes, fiscal_votes>>
            ELSE /\ req' = [req EXCEPT ![r] = Done([rec EXCEPT !.el = e], "redirect_admin")]
                 /\ lists' = lists \ {<<kind, e, c>>}
                 /\ IF kind = "council"
                    THEN votes' = NotNaming(votes, e, c) /\ UNCHANGED fiscal_votes
                    ELSE fiscal_votes' = NotNaming(fiscal_votes, e, c) /\ UNCHANGED votes
  /\ UNCHANGED <<clock, elections, election_seals, registrations, vote_tokens, offline>>

\* POST /admin/elections/:id/activate, first statement:
\* UPDATE elections SET is_active=false WHERE is_active=true
ActivateStart(r, id) ==
  /\ CanStart(r)
  /\ elections' = [e \in 1..Len(elections) |-> [elections[e] EXCEPT !.is_active = FALSE]]
  /\ req' = [req EXCEPT ![r] = [Idle EXCEPT !.kind = "activate", !.arg = id, !.pc = "act_on"]]
  /\ UNCHANGED <<clock, lists, election_seals, registrations, vote_tokens, votes,
                 fiscal_votes, offline>>

\* mutant: the unique index one_active_election is missing
SecondActive_NoIndex(id) == FALSE

\* CREATE UNIQUE INDEX one_active_election ON elections (is_active) WHERE
\* is_active: row id cannot become active while another row is
SecondActive(id) == ActiveElections \ {id} # {}

\* second statement: UPDATE elections SET is_active=true WHERE id=$1; the
\* unique index one_active_election refuses a second active row, and the
\* handler has no catch
ActivateFinish(r) ==
  /\ req[r].kind = "activate" /\ req[r].pc = "act_on"
  /\ LET id == req[r].arg IN
     IF id \notin 1..Len(elections)
     THEN /\ req' = [req EXCEPT ![r] = Done(@, "redirect_admin")]
          /\ UNCHANGED elections
     ELSE IF SecondActive(id)
     THEN /\ req' = [req EXCEPT ![r] = Done([@ EXCEPT !.err = "23505"], "unhandled")]
          /\ UNCHANGED elections
     ELSE /\ elections' = [elections EXCEPT ![id].is_active = TRUE]
          /\ req' = [req EXCEPT ![r] = Done([@ EXCEPT !.el = id], "redirect_admin")]
  /\ UNCHANGED <<clock, lists, election_seals, registrations, vote_tokens, votes,
                 fiscal_votes, offline>>

\* POST /admin/elections/:id/close:
\* UPDATE elections SET is_active=false, closed_at=NOW() WHERE id=$1
ElectionClose(id) ==
  /\ id \in 1..Len(elections)
  /\ elections' = [elections EXCEPT ![id].is_active = FALSE, ![id].closed_at = clock]
  /\ UNCHANGED <<clock, lists, election_seals, registrations, vote_tokens, votes,
                 fiscal_votes, req, offline>>

\* getActiveElectionOrLatest: the active election, else the one with the
\* highest id
ActiveOrLatest ==
  IF ActiveElections # {} THEN ActiveElections
  ELSE {e \in 1..Len(elections) : e = Len(elections)}

\* closing times the admin can enter in the form
CloseTimes == {VoteWindow.close, MaxClock}

\* POST /admin/election/edit: getActiveElectionOrLatest and the form
EditStart(r, activeFlag, voteClose) ==
  /\ CanStart(r)
  /\ LET rec == [Idle EXCEPT !.kind = "edit", !.hc = activeFlag, !.arg = voteClose] IN
     IF ActiveOrLatest = {}
     THEN req' = [req EXCEPT ![r] = Done(rec, "no_election_500")]
     ELSE \E e \in ActiveOrLatest :
            req' = [req EXCEPT ![r] =
              [rec EXCEPT !.el = e, !.pc = IF activeFlag THEN "edit_off" ELSE "edit_set"]]
  /\ UNCHANGED <<clock, db, offline>>

\* if (activeFlag) UPDATE elections SET is_active=false WHERE id<>$1
EditOthersOff(r) ==
  /\ req[r].kind = "edit" /\ req[r].pc = "edit_off"
  /\ elections' = [e \in 1..Len(elections) |->
       IF e # req[r].el THEN [elections[e] EXCEPT !.is_active = FALSE] ELSE elections[e]]
  /\ req' = [req EXCEPT ![r] = [@ EXCEPT !.pc = "edit_set"]]
  /\ UNCHANGED <<clock, lists, election_seals, registrations, vote_tokens, votes,
                 fiscal_votes, offline>>

\* UPDATE elections SET title=$1, ..., vote_close_at=$5, is_active=$6 WHERE
\* id=$7; the handler has no catch
EditSet(r) ==
  /\ req[r].kind = "edit" /\ req[r].pc = "edit_set"
  /\ IF req[r].hc /\ SecondActive(req[r].el)
     THEN /\ req' = [req EXCEPT ![r] = Done([@ EXCEPT !.err = "23505"], "unhandled")]
          /\ UNCHANGED elections
     ELSE /\ elections' = [elections EXCEPT ![req[r].el].is_active = req[r].hc,
                                             ![req[r].el].vote_close_at = req[r].arg]
          /\ req' = [req EXCEPT ![r] = Done(@, "redirect_admin")]
  /\ UNCHANGED <<clock, lists, election_seals, registrations, vote_tokens, votes,
                 fiscal_votes, offline>>

\* the admins at work: elections are created, edited, activated and closed
\* by requests that overlap
NextAdmin ==
  \/ Tick
  \/ ElectionNew
  \/ \E r \in Slots, id \in Elections : ActivateStart(r, id)
  \/ \E r \in Slots : ActivateFinish(r)
  \/ \E r \in Slots, activeFlag \in BOOLEAN, voteClose \in CloseTimes :
       EditStart(r, activeFlag, voteClose)
  \/ \E r \in Slots : EditOthersOff(r)
  \/ \E r \in Slots : EditSet(r)
  \/ \E id \in Elections : ElectionClose(id)
  \/ \E r \in Slots : Finish(r)

SpecAdmin == Init /\ [][NextAdmin]_vars

\* the campaigns of the neighbourhood one after the other: the admin creates,
\* activates and closes elections while the server answers one request at a
\* time
Serial == {1}

NextCampaigns ==
  \/ Tick
  \/ ElectionNew
  \/ \E kind \in CastKinds, c \in Choices : ListNew(kind, c)
  \/ \E r \in Serial, kind \in CastKinds, c \in Choices : ListDelete(r, kind, c)
  \/ \E r \in Serial, id \in Elections : ActivateStart(r, id)
  \/ \E r \in Serial : ActivateFinish(r)
  \/ \E id \in Elections : ElectionClose(id)
  \/ \E u \in Units : Register(u)
  \/ \E r \in Serial, kind \in CastKinds, s \in Secrets, ch \in Choices :
       CastStart(r, kind, s, ch)
  \/ \E r \in Serial : CastSelect(r)
  \/ \E r \in Serial : CastInsert(r)
  \/ \E r \in Serial : FiscalHasCouncil(r)
  \/ \E r \in Serial : CastCommit(r)
  \/ \E r \in Serial : CastFail(r)
  \/ \E r \in Serial, s \in Secrets : ViewStart(r, s)
  \/ \E r \in Serial : ViewBallots(r)
  \/ \E r \in Serial : ViewRetire(r)
  \/ \E r \in Serial, id \in 1..MaxRegs : AprobarStart(r, id)
  \/ \E r \in Serial, id \in 1..MaxRegs : ReemitirStart(r, id)
  \/ \E r \in Serial : IssueRevoke(r)
  \/ \E r \in Serial : IssueInsert(r)
  \/ \E r \in Serial : Finish(r)

SpecCampaigns == Init /\ [][NextCampaigns]_vars

\* --------------------------------------------- scripts/verify_chain.mjs
\* texts are sequences of numbers.  The marker "GENESIS" and every digest
\* differ from NullText and from each other; the hash is collision-free: a
\* digest is the hashed text behind the mark of a digest
GENESIS == <<1>>

\* sha256Hex(s)
sha256Hex(s) == <<2>> \o s

\* mutant: the payload leaves the chosen list out
payloadBuilder_NoChoice(r, previous_hash) ==
  [election_id |-> r.election_id, unit_id |-> r.unit_id, choice_id |-> NULL,
   token_id |-> r.token_id, cast_at |-> r.cast_at,
   previous_hash |-> previous_hash, chain_position |-> r.chain_position]

\* payloadBuilder(r, previous_hash): candidate_id for votes, fiscal_list_id
\* for fiscal_votes
payloadBuilder(r, previous_hash) ==
  [election_id |-> r.election_id, unit_id |-> r.unit_id, choice_id |-> r.choice_id,
   token_id |-> r.token_id, cast_at |-> r.cast_at,
   previous_hash |-> previous_hash, chain_position |-> r.chain_position]

\* JSON.stringify(payload): the values in the order of the keys; the only
\* value of variable length stands between values of fixed length
JSONstringify(payload) ==
  <<payload.election_id, payload.unit_id, payload.choice_id, payload.token_id,
    payload.cast_at>> \o payload.previous_hash \o <<payload.chain_position>>

\* WHERE election_id=$1
OfElection(table, e) == SelectSeq(table, LAMBDA row : row.election_id = e)

\* ORDER BY chain_position ASC: NULL sorts last
SortsBefore(a, b) ==
  /\ a.chain_position # NULL
  /\ (b.chain_position = NULL \/ a.chain_position < b.chain_position)

\* every sequence the SELECT may return: rows with equal chain_position
\* come in any order
OrderBy(table) ==
  {[i \in 1..Len(table) |-> table[p[i]]] :
     p \in {q \in Permutations(1..Len(table)) :
              \A i, j \in 1..Len(table) :
                 i < j => ~SortsBefore(table[q[j]], table[q[i]])}}

\* mutant: the link of the first row is not checked
LinkBroken_SkipFirst(r, prevHash) ==
  prevHash # GENESIS /\ r.previous_hash # prevHash

\* if (r.previous_hash !== prevHash)
LinkBroken(r, prevHash) == r.previous_hash # prevHash

\* mutant: the recomputed digest is never compared with the stored one
HashInvalid_Never(r, prevHash) == FALSE

\* if (expectedHash !== r.vote_hash)
HashInvalid(r, prevHash) ==
  sha256Hex(JSONstringify(payloadBuilder(r, prevHash))) # r.vote_hash

\* mutant: the fold takes the stored link of each row
Concat_Previous(concatenated, r) == concatenated \o r.previous_hash

\* concatenated += r.vote_hash
Concat(concatenated, r) == concatenated \o r.vote_hash

\* the loop of verifyTable from row i on: the first row that fails throws
RECURSIVE Walk(_, _, _, _)
Walk(rows, i, prevHash, concatenated) ==
  IF i > Len(rows)
  THEN [error |-> "none", position |-> NULL, concatenated |-> concatenated]
  ELSE IF LinkBroken(rows[i], prevHash)
  THEN [error |-> "broken_link", position |-> rows[i].chain_position,
        concatenated |-> concatenated]
  ELSE IF HashInvalid(rows[i], prevHash)
  THEN [error |-> "hash_invalid", position |-> rows[i].chain_position,
        concatenated |-> concatenated]
  ELSE Walk(rows, i + 1, rows[i].vote_hash, Concat(concatenated, rows[i]))

\* let prevHash = "GENESIS"; let concatenated = "";
WalkAll(rows) == Walk(rows, 1, GENESIS, <<>>)

\* concatenated after the loop has passed the first n rows
RECURSIVE Concatenated(_, _)
Concatenated(rows, n) ==
  IF n = 0 THEN <<>> ELSE Concat(Concatenated(rows, n - 1), rows[n])

\* SELECT global_hash FROM election_seals WHERE election_id=$1 AND kind=$2
SealOf(e, kind) == {x \in election_seals : x.election_id = e /\ x.kind = kind}

\* node scripts/verify_chain.mjs <election_id>
VerifyStart(e) ==
  /\ verifier.pc = "idle"
  /\ e \in 1..Len(elections)
  /\ verifier' = [verifier EXCEPT !.pc = "rows", !.el = e, !.kind = "council"]
  /\ UNCHANGED <<clock, db, req, tampered>>

\* verifyTable: SELECT * FROM <table> WHERE election_id=$1 ORDER BY
\* chain_position ASC, the loop, and globalHash = sha256Hex(concatenated)
VerifyRows ==
  /\ verifier.pc = "rows"
  /\ \E rows \in OrderBy(OfElection(Table(verifier.kind), verifier.el)) :
       LET w == WalkAll(rows) IN
       IF w.error # "none"
       THEN verifier' = [verifier EXCEPT
              !.pc = "exit", !.exit = 1,
              !.out = Append(@, [kind |-> verifier.kind, rows |-> rows,
                                 error |-> w.error, position |-> w.position,
                                 seal |-> "-"])]
       ELSE verifier' = [verifier EXCEPT
              !.pc = "seal", !.rows = rows, !.globalHash = sha256Hex(w.concatenated)]
  /\ UNCHANGED <<clock, db, req, tampered>>

\* mutant: a seal that differs from the recomputed fold is tolerated
SealCheck_WarnOnly(seal, globalHash) ==
  IF seal = {} THEN "no_seal" ELSE "match"

\* mutant: a chain without a seal is reported as a failure
SealCheck_Required(seal, globalHash) ==
  IF seal = {} THEN "seal_mismatch"
  ELSE IF \E x \in seal : x.global_hash # globalHash THEN "seal_mismatch"
  ELSE "match"

\* mutant: the comparison with the seal is inverted
SealCheck_Inverted(seal, globalHash) ==
  IF seal = {} THEN "no_seal"
  ELSE IF \E x \in seal : x.global_hash = globalHash THEN "seal_mismatch"
  ELSE "match"

\* the outcome of comparing the stored seal with globalHash
SealCheck(seal, globalHash) ==
  IF seal = {} THEN "no_seal"
  ELSE IF \E x \in seal : x.global_hash # globalHash THEN "seal_mismatch"
  ELSE "match"

\* mutant: a verifier that finds no seal stores the fold it computed as the
\* seal
VerifySeal_Stores ==
  /\ verifier.pc = "seal"
  /\ LET found == SealCheck(SealOf(verifier.el, verifier.kind), verifier.globalHash)
         line == [kind |-> verifier.kind, rows |-> verifier.rows,
                  error |-> IF found = "seal_mismatch" THEN found ELSE "none",
                  position |-> NULL, seal |-> found]
         v == [verifier EXCEPT !.out = Append(@, line), !.rows = <<>>,
                               !.globalHash = NullText] IN
     /\ verifier' =
          IF found = "seal_mismatch" THEN [v EXCEPT !.pc = "exit", !.exit = 1]
          ELSE IF verifier.kind = "council" THEN [v EXCEPT !.pc = "rows", !.kind = "fiscal"]
          ELSE [v EXCEPT !.pc = "exit", !.exit = 0]
     /\ election_seals' =
          IF found = "no_seal"
          THEN election_seals \cup
                 {[election_id |-> verifier.el, kind |-> verifier.kind,
                   global_hash |-> verifier.globalHash,
                   total_votes |-> Len(verifier.rows)]}
          ELSE election_seals
  /\ UNCHANGED <<clock, lists, elections, registrations, vote_tokens, votes, fiscal_votes,
                 req, tampered>>

\* verifyTable: SELECT global_hash FROM election_seals ..., the comparison,
\* then the next table or the end of the process
VerifySeal ==
  /\ verifier.pc = "seal"
  /\ LET found == SealCheck(SealOf(verifier.el, verifier.kind), verifier.globalHash)
         line == [kind |-> verifier.kind, rows |-> verifier.rows,
                  error |-> IF found = "seal_mismatch" THEN found ELSE "none",
                  position |-> NULL, seal |-> found]
         v == [verifier EXCEPT !.out = Append(@, line), !.rows = <<>>,
                               !.globalHash = NullText] IN
     verifier' =
       IF found = "seal_mismatch" THEN [v EXCEPT !.pc = "exit", !.exit = 1]
       ELSE IF verifier.kind = "council" THEN [v EXCEPT !.pc = "rows", !.kind = "fiscal"]
       ELSE [v EXCEPT !.pc = "exit", !.exit = 0]
  /\ UNCHANGED <<clock, db, req, tampered>>

\* ------------------------------------------ the ledger on the audit day
\* lists a ballot row can name: POST /admin/elections/new seeds two of them
SeedLists == 2

\* chain positions a stored row may carry
Positions == 1..(MaxChain + 1)

\* a ballot row of unit i as the README describes it: chain_position,
\* previous_hash and vote_hash = SHA256(JSON(payload))
LinkedRow(e, i, choice, ts, pos, prev) ==
  LET r == [election_id |-> e, unit_id |-> i, choice_id |-> choice,
            token_id |-> i, cast_at |-> ts, chain_position |-> pos,
            previous_hash |-> prev, vote_hash |-> NullText] IN
  [r EXCEPT !.vote_hash = sha256Hex(JSONstringify(payloadBuilder(r, prev)))]

\* n ballots, each one referring to the one before it
RECURSIVE LinkedChain(_, _, _, _, _)
LinkedChain(e, n, c, t, p) ==
  IF n = 0 THEN <<>>
  ELSE LET head == LinkedChain(e, n - 1, c, t, p)
           prev == IF n = 1 THEN GENESIS ELSE head[n - 1].vote_hash IN
       Append(head, LinkedRow(e, n, c[n], t[n], p[n], prev))

\* the chains of at most MaxChain ballots whose links and digests agree;
\* their positions grow, with or without holes
LinkedChains(e) ==
  {LinkedChain(e, n, c, t, p) :
     n \in 0..MaxChain,
     c \in [1..MaxChain -> Choices],
     t \in [1..MaxChain -> 1..MaxClock],
     p \in {f \in [1..MaxChain -> Positions] :
              \A i, j \in 1..MaxChain : i < j => f[i] < f[j]}}

\* the election is closed; every unit that cast a ballot was registered,
\* approved and given a credential, which the council cast leaves ACTIVE
InitLedger ==
  /\ clock = MaxClock
  /\ elections = <<[is_active |-> FALSE, vote_open_at |-> VoteWindow.open,
                    vote_close_at |-> VoteWindow.close, closed_at |-> MaxClock]>>
  /\ election_seals = {}
  /\ lists = ListsOf(1)
  /\ votes \in LinkedChains(1)
  /\ fiscal_votes \in LinkedChains(1)
  /\ LET n == IF Len(votes) > Len(fiscal_votes) THEN Len(votes) ELSE Len(fiscal_votes) IN
     /\ registrations = [i \in 1..n |->
          [election_id |-> 1, unit_id |-> i, status |-> "APPROVED"]]
     /\ vote_tokens = [i \in 1..n |->
          [election_id |-> 1, registration_id |-> i, unit_id |-> i,
           status |-> "ACTIVE", used_at |-> NULL]]
  /\ req = [r \in Slots |-> Idle]
  /\ verifier = VerifierIdle
  /\ tampered = Untouched

\* columns of a ballot row that a change behind the application reaches
TamperFields == {"choice_id", "cast_at", "previous_hash", "vote_hash"}

\* texts at hand to overwrite a digest with
TextPool(table) ==
  {GENESIS, NullText, sha256Hex(<<>>)}
    \cup {table[i].vote_hash : i \in 1..Len(table)}
    \cup {table[i].previous_hash : i \in 1..Len(table)}

TamperValues(table, field) ==
  IF field = "choice_id" THEN 1..SeedLists
  ELSE IF field = "cast_at" THEN 1..MaxClock
  ELSE TextPool(table)

\* someone with access to the database rewrites one column of one ballot row
Tamper(kind, i, field, value) ==
  /\ tampered = Untouched
  /\ i \in 1..Len(Table(kind))
  /\ value \in TamperValues(Table(kind), field)
  /\ value # Table(kind)[i][field]
  /\ IF kind = "council"
     THEN votes' = [votes EXCEPT ![i][field] = value] /\ UNCHANGED fiscal_votes
     ELSE fiscal_votes' = [fiscal_votes EXCEPT ![i][field] = value] /\ UNCHANGED votes
  /\ tampered' = [kind |-> kind, election_id |-> Table(kind)[i].election_id,
                  position |-> Table(kind)[i].chain_position, field |-> field,
                  sealed |-> SealOf(Table(kind)[i].election_id, kind) # {}]
  /\ UNCHANGED <<clock, lists, elections, election_seals, registrations, vote_tokens,
                 req, verifier>>

\* Cerrar y Sellar: all vote_hash joined in order
RECURSIVE SealConcat(_)
SealConcat(rows) ==
  IF rows = <<>> THEN <<>> ELSE Head(rows).vote_hash \o SealConcat(Tail(rows))

\* mutant: election_seals has no unique constraint
SealKeyConflict_NoIndex(x, e, kind) == FALSE

\* election_seals: UNIQUE (election_id, kind)
SealKeyConflict(x, e, kind) == x.election_id = e /\ x.kind = kind

\* seal(election, category): refused when a seal exists; validates every
\* link as the verifier does, then stores global_hash = SHA256(concatenation)
\* and the number of ballots
Seal(e, kind) ==
  /\ e \in 1..Len(elections)
  /\ \A x \in election_seals : ~SealKeyConflict(x, e, kind)
  /\ \E rows \in OrderBy(OfElection(Table(kind), e)) :
       /\ WalkAll(rows).error = "none"
       /\ election_seals' = election_seals \cup
            {[election_id |-> e, kind |-> kind,
              global_hash |-> sha256Hex(SealConcat(rows)), total_votes |-> Len(rows)]}
  /\ UNCHANGED <<clock, lists, elections, registrations, vote_tokens, votes,
                 fiscal_votes, req, offline>>

NextLedger ==
  \/ \E kind \in CastKinds, i \in 1..MaxChain, field \in TamperFields :
       \E value \in TamperValues(Table(kind), field) : Tamper(kind, i, field, value)
  \/ \E e \in Elections, kind \in CastKinds : Seal(e, kind)
  \/ \E e \in Elections : VerifyStart(e)
  \/ VerifyRows
  \/ VerifySeal

SpecLedger == InitLedger /\ [][NextLedger]_vars

\* ------------------------------- the sealed ledger: rows removed, rows added
\* ballots of one chain in the sealed ledger
MaxSealed == 3

\* a chain of n ballots at the positions 1..n, cast when the window opened
SealedChains(e) ==
  {LinkedChain(e, n, c, [i \in 1..MaxSealed |-> VoteWindow.open],
               [i \in 1..MaxSealed |-> i]) :
     n \in 0..MaxSealed, c \in [1..MaxSealed -> Choices]}

\* the election is closed; every unit was registered, approved and given a
\* credential, and the first units cast their ballots
InitSealed ==
  /\ clock = MaxClock
  /\ elections = <<[is_active |-> FALSE, vote_open_at |-> VoteWindow.open,
                    vote_close_at |-> VoteWindow.close, closed_at |-> MaxClock]>>
  /\ election_seals = {}
  /\ lists = ListsOf(1)
  /\ votes \in SealedChains(1)
  /\ fiscal_votes \in SealedChains(1)
  /\ registrations = [i \in 1..(MaxSealed + 1) |->
       [election_id |-> 1, unit_id |-> i, status |-> "APPROVED"]]
  /\ vote_tokens = [i \in 1..(MaxSealed + 1) |->
       [election_id |-> 1, registration_id |-> i, unit_id |-> i,
        status |-> "ACTIVE", used_at |-> NULL]]
  /\ req = [r \in Slots |-> Idle]
  /\ verifier = VerifierIdle
  /\ tampered = Untouched

\* the table without the rows at the indices in gone
Without(table, gone) ==
  LET keep(i) == i \notin gone
      F[i \in 0..Len(table)] ==
        IF i = 0 THEN <<>>
        ELSE IF keep(i) THEN Append(F[i - 1], table[i]) ELSE F[i - 1] IN
  F[Len(table)]

\* the lowest chain position among the rows at the indices in gone
LowestPosition(table, gone) ==
  CHOOSE p \in {table[i].chain_position : i \in gone} :
    \A i \in gone : p <= table[i].chain_position

\* someone with access to the database deletes ballot rows of one table
RemoveBallots(kind, gone) ==
  /\ tampered = Untouched
  /\ gone # {} /\ gone \subseteq 1..Len(Table(kind))
  /\ IF kind = "council"
     THEN votes' = Without(votes, gone) /\ UNCHANGED fiscal_votes
     ELSE fiscal_votes' = Without(fiscal_votes, gone) /\ UNCHANGED votes
  /\ tampered' = [kind |-> kind, election_id |-> 1,
                  position |-> LowestPosition(Table(kind), gone), field |-> "removed",
                  sealed |-> SealOf(1, kind) # {}]
  /\ UNCHANGED <<clock, lists, elections, election_seals, registrations, vote_tokens,
                 req, verifier>>

\* the rows someone can insert by hand for the next unit: a position or
\* none, a link to nothing, to GENESIS or to a stored digest, and an output
\* digest that is missing, copied from the last row, or computed as the
\* README describes
ForgedRows(table) ==
  LET u == Len(table) + 1
      links == {NullText, GENESIS} \cup {table[i].vote_hash : i \in 1..Len(table)}
      honest(ch, pos, prev) == LinkedRow(1, u, ch, clock, pos, prev) IN
  {[honest(ch, pos, prev) EXCEPT !.vote_hash = vh] :
     ch \in Choices, pos \in {NULL} \cup (1..u), prev \in links,
     vh \in {NullText} \cup {table[i].vote_hash : i \in {Len(table)} \ {0}}}
  \cup {honest(ch, pos, prev) :
          ch \in Choices, pos \in {NULL} \cup (1..u), prev \in links}

\* someone with access to the database inserts one ballot row
AddBallot(kind, row) ==
  /\ tampered = Untouched
  /\ row \in ForgedRows(Table(kind))
  /\ IF kind = "council"
     THEN votes' = Append(votes, row) /\ UNCHANGED fiscal_votes
     ELSE fiscal_votes' = Append(fiscal_votes, row) /\ UNCHANGED votes
  /\ tampered' = [kind |-> kind, election_id |-> row.election_id,
                  position |-> row.chain_position, field |-> "added",
                  sealed |-> SealOf(row.election_id, kind) # {}]
  /\ UNCHANGED <<clock, lists, elections, election_seals, registrations, vote_tokens,
                 req, verifier>>

NextSealed ==
  \/ \E kind \in CastKinds, gone \in SUBSET (1..MaxSealed) : RemoveBallots(kind, gone)
  \/ \E kind \in CastKinds : \E row \in ForgedRows(Table(kind)) : AddBallot(kind, row)
  \/ \E e \in Elections, kind \in CastKinds : Seal(e, kind)
  \/ \E e \in Elections : VerifyStart(e)
  \/ VerifyRows
  \/ VerifySeal

SpecSealed == InitSealed /\ [][NextSealed]_vars

\* ================================================================ claims
Tokens == 1..Len(vote_tokens)

CastDone(r) == req[r].kind \in CastKinds /\ req[r].pc = "done"

\* rows of a ballot table for (election e, unit u)
RowsOf(rows, e, u) ==
  {i \in 1..Len(rows) : rows[i].election_id = e /\ rows[i].unit_id = u}

\* rows of a ballot table cast with credential t
RowsBy(rows, t) == {i \in 1..Len(rows) : rows[i].token_id = t}

\* C1: in every reachable state there is at most one council ballot and at
\* most one fiscal ballot per (election, voting unit)
C1_OneBallotPerUnit ==
  \A e \in Elections, u \in Units :
    /\ Cardinality(RowsOf(votes, e, u)) <= 1
    /\ Cardinality(RowsOf(fiscal_votes, e, u)) <= 1

\* a second credential exists, the unit holds both ballots, and a further
\* cast with a still-ACTIVE credential was turned away by the unique index
C1_Witness ==
  /\ Len(vote_tokens) = 2 /\ Len(votes) = 1 /\ Len(fiscal_votes) = 1
  /\ \E r \in Slots : CastDone(r) /\ req[r].err = "23505" /\ req[r].st = "ACTIVE"

\* outcome of a finished cast that resolved its credential and met no
\* infrastructure failure: it recorded the ballot, or it recorded nothing
\* and was answered with `rejected`
CastOutcome(r, rejected) ==
  LET rec == req[r]
      mine == RowsBy(Table(rec.kind), rec.tid) IN
  \/ /\ rec.committed
     /\ rec.resp \in {"redirect_ballot", "vote_done"}
     /\ Cardinality(mine) = 1
  \/ /\ ~rec.committed
     /\ rec.st # "ACTIVE"
     /\ rec.resp = "vote_used"
  \/ /\ ~rec.committed
     /\ rec.st = "ACTIVE"
     /\ RowsOf(Table(rec.kind), rec.el, rec.unit) # {}
     /\ rec.resp = rejected

C2_Scope(r) == CastDone(r) /\ req[r].tid # 0 /\ req[r].err # "other"

C3_SecondCastRetires ==
  [][\A r \in Slots :
       (req[r].kind \in CastKinds /\ req[r].pc = "commit" /\ req'[r].committed) =>
          LET e == req[r].el
              u == req[r].unit IN
          IF RowsOf(votes', e, u) # {} /\ RowsOf(fiscal_votes', e, u) # {}
          THEN vote_tokens'[req[r].tid].status = "USED"
          ELSE vote_tokens'[req[r].tid].status = "ACTIVE"]_vars

\* C4: a credential whose status is USED belongs to a unit that has both a
\* council ballot and a fiscal ballot for the credential's election
C4_UsedHasBothBallots ==
  \A t \in Tokens :
    vote_tokens[t].status = "USED" =>
      /\ RowsOf(votes, vote_tokens[t].election_id, vote_tokens[t].unit_id) # {}
      /\ RowsOf(fiscal_votes, vote_tokens[t].election_id, vote_tokens[t].unit_id) # {}

\* one credential was retired by its fiscal cast, another by the ballot page
C4_Witness ==
  /\ \E t \in Tokens : vote_tokens[t].status = "USED"
  /\ \E r \in Slots : req[r].kind = "view" /\ req[r].pc = "done"
                      /\ req[r].st = "ACTIVE" /\ req[r].resp = "vote_used"

\* C5: a unit has at most one ACTIVE credential per election
C5_OneActiveToken ==
  \A e \in Elections, u \in Units : Cardinality(ActiveTokens(e, u)) <= 1

\* C6: once a second credential has been issued for the unit, the first one
\* is not ACTIVE and no cast presenting it records a ballot
C6_FirstRevoked ==
  /\ [](\A t1, t2 \in Tokens :
          (/\ t1 < t2
           /\ vote_tokens[t1].election_id = vote_tokens[t2].election_id
           /\ vote_tokens[t1].unit_id = vote_tokens[t2].unit_id)
          => vote_tokens[t1].status # "ACTIVE")
  /\ [][\A t1, t2 \in Tokens :
          (/\ t1 < t2
           /\ vote_tokens[t1].election_id = vote_tokens[t2].election_id
           /\ vote_tokens[t1].unit_id = vote_tokens[t2].unit_id)
          => /\ RowsBy(votes', t1) = RowsBy(votes, t1)
             /\ RowsBy(fiscal_votes', t1) = RowsBy(fiscal_votes, t1)]_vars

\* C7: once a credential is USED, REVOKED or EXPIRED its status never changes
C7_TerminalStatus ==
  [][\A t \in Tokens :
       vote_tokens[t].status # "ACTIVE" =>
         vote_tokens'[t].status = vote_tokens[t].status]_vars

\* C8: a cast that finds its credential USED ends in the 'already voted' page
\* and changes no table; a view of the ballot page that found the credential
\* USED changes no table and never reaches the retiring UPDATE
C8_UsedIsIdempotent ==
  [][\A r \in Slots :
       /\ (/\ req[r].kind \in CastKinds /\ req[r].pc = "select"
           /\ req'[r] # req[r]
           /\ req'[r].tid # 0
           /\ vote_tokens[req'[r].tid].status = "USED")
          => /\ req'[r].pc = "done" /\ req'[r].resp = "vote_used"
             /\ ~req'[r].committed
             /\ db' = db
       /\ (/\ req[r].kind = "view" /\ req[r].st = "USED"
           /\ req'[r] # req[r])
          => /\ req'[r].pc \in {"done", "idle"}
             /\ db' = db]_vars

\* a cast and a view have both answered after finding the credential USED
C8_Witness ==
  \E r1, r2 \in Slots :
    /\ CastDone(r1) /\ req[r1].st = "USED" /\ req[r1].resp = "vote_used"
    /\ req[r2].kind = "view" /\ req[r2].pc = "done" /\ req[r2].st = "USED"
       /\ req[r2].resp = "vote_used"

\* the INSERT of request r hits a committed ballot of its unit that was cast
\* with another credential
C9_Case(r) ==
  /\ req[r].kind \in CastKinds /\ req[r].pc = "insert"
  /\ \E i \in RowsOf(Table(req[r].kind), req[r].el, req[r].unit) :
       Table(req[r].kind)[i].token_id # req[r].tid

\* the step that ends such an INSERT without an unrelated failure: error
\* 23505, rolled back, no table changed, answered with `rejected`
C9_Step(r, rejected) ==
  (C9_Case(r) /\ req'[r] # req[r] /\ req'[r].err # "other") =>
     /\ req'[r].pc = "done" /\ req'[r].err = "23505"
     /\ ~req'[r].committed
     /\ req'[r].resp = rejected
     /\ db' = db

\* C9 as stated: a cast with a different ACTIVE credential for a unit that
\* already has the ballot is rolled back and ends in the same 'already voted'
\* page as a consumed credential (vote_used)
C9_Original == [][\A r \in Slots : C9_Step(r, "vote_used")]_vars

\* C9 amended: such a cast is rolled back, adds no ballot, leaves the
\* credential's status unchanged and is never a fatal error; a council cast
\* ends in the 'already voted' page, a fiscal cast in the redirect to the
\* ballot page
C9_DuplicateIsNotFatal ==
  [][\A r \in Slots :
       C9_Step(r, IF req[r].kind = "council" THEN "vote_used" ELSE "redirect_ballot")]_vars

\* a cast with the second credential was turned away by the unique index
\* because of the ballot cast with the first one
C9_Witness ==
  \E r \in Slots :
    /\ CastDone(r) /\ req[r].err = "23505" /\ req[r].st = "ACTIVE"
    /\ \E i \in RowsOf(Table(req[r].kind), req[r].el, req[r].unit) :
         Table(req[r].kind)[i].token_id # req[r].tid
    /\ vote_tokens[req[r].tid].status = "ACTIVE"

C11_FailureLeavesLedger ==
  [][\A r \in Slots :
       (/\ req[r].kind \in CastKinds /\ req[r].pc # "done"
        /\ req'[r].pc = "done" /\ req'[r].resp = "error_500")
       => /\ db' = db
          /\ ~req'[r].committed]_vars

\* C12: the uniqueness that stops a second council ballot is per election: a
\* council cast in election E2 by a unit that has no council ballot in E2 but
\* has one in another election is not turned away by the unique index
C12_KeyedPerElection ==
  [][\A r \in Slots :
       (/\ req[r].kind = "council" /\ req[r].pc = "insert"
        /\ req'[r] # req[r] /\ req'[r].err # "other"
        /\ RowsOf(votes, req[r].el, req[r].unit) = {}
        /\ \E e \in Elections \ {req[r].el} : RowsOf(votes, e, req[r].unit) # {})
       => req'[r].pc = "commit"]_vars

\* the ballots of election e in one category
ChainOf(kind, e) == OfElection(Table(kind), e)

\* C13: in every reachable state the ballots of each (election, category)
\* carry the chain positions 1..N, each once; the ballot at position 1
\* stores the previous digest GENESIS and every later ballot stores the
\* output digest of the ballot one position before it
C13_ChainIsLinked ==
  \A kind \in CastKinds, e \in Elections :
    LET rows == ChainOf(kind, e)
        n == Len(rows) IN
    /\ {rows[i].chain_position : i \in 1..n} = 1..n
    /\ \A i \in 1..n :
         rows[i].chain_position = 1 => rows[i].previous_hash = GENESIS
    /\ \A i, j \in 1..n :
         rows[j].chain_position = rows[i].chain_position + 1
           => rows[j].previous_hash = rows[i].vote_hash

\* C14: verify reports every chain that only accepted casts have written
\* as intact: no broken link and no invalid hash at any position
C14_VerifyAcceptsCasts ==
  \A kind \in CastKinds, e \in Elections :
    \A rows \in OrderBy(ChainOf(kind, e)) : WalkAll(rows).error = "none"

\* ------------------------------------------------ claims on the verifier
\* the lines the verifier has put out, one per verified table
Lines == {verifier.out[j] : j \in 1..Len(verifier.out)}

RowSet(rows) == {rows[i] : i \in 1..Len(rows)}

\* the verifier read the table of line x after the row was tampered with
SawTampering(x) ==
  /\ tampered.kind = x.kind
  /\ RowSet(x.rows) = RowSet(Table(x.kind))

\* C15: from a chain that verify accepts, a change of the choice id, the
\* cast timestamp, the previous digest or the output digest of one ballot
\* makes verify fail, and the position it reports is that ballot's position
C15_TamperIsLocated ==
  \A x \in Lines :
    SawTampering(x) =>
      /\ x.error \in {"broken_link", "hash_invalid"}
      /\ x.position = tampered.position

\* the choice of the second ballot of a chain was changed and verify
\* reported an invalid hash at that ballot's position
C15_Witness ==
  \E x \in Lines :
    /\ SawTampering(x) /\ tampered.field = "choice_id"
    /\ Len(x.rows) = MaxChain /\ tampered.position = x.rows[MaxChain].chain_position
    /\ x.error = "hash_invalid" /\ x.position = tampered.position

\* the seal fold recomputed over the stored chain differs from the stored
\* seal of the chain that was tampered with after sealing
FoldDiffers ==
  \A x \in SealOf(tampered.election_id, tampered.kind) :
    \A rows \in OrderBy(ChainOf(tampered.kind, tampered.election_id)) :
      sha256Hex(Concatenated(rows, Len(rows))) # x.global_hash

\* C16 as stated: after a sealed, valid chain had the choice id, the cast
\* timestamp, the previous digest or the output digest of one ballot
\* changed, the recomputed seal fold differs from the stored seal
C16_Original == tampered.sealed => FoldDiffers

\* C16 amended: after such a change the recomputed fold differs from the
\* stored seal when the output digest was changed; a change of the choice
\* id, the cast timestamp or the previous digest leaves the fold equal to
\* the seal
C16_FoldSeesDigests ==
  tampered.sealed => (FoldDiffers <=> tampered.field = "vote_hash")

\* the output digest of a ballot of a sealed chain of MaxChain ballots was
\* changed
C16_Witness ==
  /\ tampered.sealed /\ tampered.field = "vote_hash"
  /\ Len(ChainOf(tampered.kind, tampered.election_id)) = MaxChain
  /\ FoldDiffers

\* digest of the stored columns of a ballot row
DigestOfStored(r) ==
  sha256Hex(<<r.election_id, r.unit_id, r.choice_id, r.token_id, r.cast_at>>
            \o r.previous_hash \o <<r.chain_position>>)

\* the stored previous digest of row i is not the output digest of the row
\* before it (GENESIS for the first row)
StoredLinkBroken(rows, i) ==
  rows[i].previous_hash # (IF i = 1 THEN GENESIS ELSE rows[i - 1].vote_hash)

\* the stored output digest of row i is not the digest of its columns
StoredHashBad(rows, i) == rows[i].vote_hash # DigestOfStored(rows[i])

\* row i is the first one in position order with a defect
FirstDefect(rows, i) ==
  /\ StoredLinkBroken(rows, i) \/ StoredHashBad(rows, i)
  /\ \A j \in 1..(i - 1) : ~StoredLinkBroken(rows, j) /\ ~StoredHashBad(rows, j)

\* C17 as stated: verify fails with a broken-link report naming the position
\* of every ballot whose stored previous digest is not the output digest of
\* the ballot before it
C17_Original ==
  \A x \in Lines : \A i \in 1..Len(x.rows) :
    StoredLinkBroken(x.rows, i) =>
      x.error = "broken_link" /\ x.position = x.rows[i].chain_position

\* C17 amended: verify stops at the first defective ballot in position
\* order; when that ballot's stored previous digest is not the output digest
\* of the ballot before it, verify fails with a broken-link report naming
\* its position
C17_FirstBrokenLink ==
  \A x \in Lines : \A i \in 1..Len(x.rows) :
    (FirstDefect(x.rows, i) /\ StoredLinkBroken(x.rows, i)) =>
      x.error = "broken_link" /\ x.position = x.rows[i].chain_position

\* the link of the last ballot of a chain was broken and reported
C17_Witness ==
  \E x \in Lines :
    /\ Len(x.rows) = MaxChain /\ FirstDefect(x.rows, MaxChain)
    /\ StoredLinkBroken(x.rows, MaxChain)
    /\ x.error = "broken_link" /\ x.position = x.rows[MaxChain].chain_position

\* C18 as stated: verify fails with an invalid-hash report naming the
\* position of every ballot whose stored output digest is not the digest of
\* its stored columns
C18_Original ==
  \A x \in Lines : \A i \in 1..Len(x.rows) :
    StoredHashBad(x.rows, i) =>
      x.error = "hash_invalid" /\ x.position = x.rows[i].chain_position

\* C18 amended: when the first defective ballot in position order has its
\* link intact and a stored output digest that is not the digest of its
\* stored columns, verify fails with an invalid-hash report, which is not
\* the broken-link report, naming its position
C18_FirstHashMismatch ==
  \A x \in Lines : \A i \in 1..Len(x.rows) :
    (FirstDefect(x.rows, i) /\ ~StoredLinkBroken(x.rows, i)) =>
      x.error = "hash_invalid" /\ x.position = x.rows[i].chain_position

\* the timestamp of the first ballot of a chain was changed and reported
C18_Witness ==
  \E x \in Lines :
    /\ Len(x.rows) = MaxChain /\ FirstDefect(x.rows, 1)
    /\ ~StoredLinkBroken(x.rows, 1) /\ tampered.field = "cast_at"
    /\ x.error = "hash_invalid" /\ x.position = x.rows[1].chain_position

\* C19: verify reports a chain whose links and digests agree but whose
\* positions skip a number or do not start at 1 as a failure, with the
\* reason 'gap' and the first offending position
C19_GapReported ==
  \A x \in Lines : \A i \in 1..Len(x.rows) :
    (/\ \A j \in 1..Len(x.rows) :
          ~StoredLinkBroken(x.rows, j) /\ ~StoredHashBad(x.rows, j)
     /\ x.rows[i].chain_position # i
     /\ \A j \in 1..(i - 1) : x.rows[j].chain_position = j)
    => x.error = "gap" /\ x.position = x.rows[i].chain_position

\* C20: verify run on a chain that was not changed reports no failure, and
\* when it finds the seal computed over that chain it reports that the
\* global hash matches the seal, whatever the length of the chain
C20_SealRoundTrip ==
  \A x \in Lines :
    (~SawTampering(x) /\ x.seal # "no_seal") =>
      x.error = "none" /\ x.seal = "match"

\* the verifier found the seal matching for a chain of MaxChain ballots and
\* for the empty chain
C20_Witness ==
  \E x, y \in Lines :
    /\ ~SawTampering(x) /\ Len(x.rows) = MaxChain /\ x.seal = "match"
    /\ ~SawTampering(y) /\ y.rows = <<>> /\ y.seal = "match"

\* ------------------------------------------- claims on the sealed ledger
\* a report that makes verify fail
Failures == {"broken_link", "hash_invalid", "seal_mismatch"}

\* the verifier read the table of line x after rows of a sealed chain were
\* removed or a row was added to it
SawSealedChange(x, how) ==
  /\ SawTampering(x) /\ tampered.sealed /\ tampered.field = how

\* C21: after a chain has been sealed, the removal of records (first,
\* middle or last) or the addition of a record makes verify fail, with a
\* broken-link or invalid-hash report or with the report that the global
\* hash does not match the seal
C21_SealedChangeFails ==
  \A x \in Lines :
    (SawSealedChange(x, "removed") \/ SawSealedChange(x, "added"))
      => x.error \in Failures

\* the middle ballot of a sealed chain of MaxSealed ballots was removed and
\* verify reported a broken link
C21_Witness ==
  \E x \in Lines :
    /\ SawSealedChange(x, "removed") /\ tampered.position = 2
    /\ Len(x.rows) = MaxSealed - 1 /\ x.error = "broken_link"

\* the last ballot of a sealed chain was removed and verify reported that
\* the global hash does not match the seal
C21_LastRemoved ==
  \E x \in Lines :
    /\ SawSealedChange(x, "removed") /\ tampered.position = MaxSealed
    /\ Len(x.rows) = MaxSealed - 1 /\ x.error = "seal_mismatch"

\* a well-linked ballot was added to a sealed chain and verify reported that
\* the global hash does not match the seal
C21_Added ==
  \E x \in Lines :
    /\ SawSealedChange(x, "added") /\ Len(x.rows) = MaxSealed + 1
    /\ x.error = "seal_mismatch"

\* C22: in every reachable state at most one seal exists per (election,
\* category); no step changes or removes a stored seal, so an attempt to
\* seal a pair that has a seal leaves its digest and record count as they
\* were
C22_OneSealForGood ==
  [][/\ \A x \in election_seals : x \in election_seals'
     /\ \A x, y \in election_seals' :
          (x.election_id = y.election_id /\ x.kind = y.kind) => x = y]_vars

\* a sealed chain lost its last ballot: sealing it again would store another
\* digest and another count than the seal that is kept
C22_Witness ==
  /\ tampered.sealed /\ tampered.field = "removed"
  /\ \A rows \in OrderBy(ChainOf(tampered.kind, 1)) : WalkAll(rows).error = "none"
  /\ \E x \in SealOf(1, tampered.kind) :
       /\ x.total_votes = MaxSealed
       /\ Len(ChainOf(tampered.kind, 1)) < MaxSealed

\* C25: verify is read-only: a step of the verifier, whether the run ends in
\* success or in failure, leaves the ballots with their chain columns, the
\* credentials and the seals exactly as they were
C25_VerifyReadsOnly ==
  [][verifier' # verifier
       => <<votes, fiscal_votes, vote_tokens, election_seals>>'
            = <<votes, fiscal_votes, vote_tokens, election_seals>>]_vars

\* a run of the verifier passed the council chain, which has no seal, and
\* failed on the fiscal chain
C25_Witness ==
  /\ verifier.pc = "exit" /\ verifier.exit = 1 /\ Len(verifier.out) = 2
  /\ verifier.out[1].seal = "no_seal" /\ Len(verifier.out[1].rows) = MaxSealed
  /\ verifier.out[2].error \in Failures

\* C27: when no seal is stored for (election, category), verify does not
\* fail on that account: its report for the chain carries no failure exactly
\* when every link and digest check passes, so an unsealed chain that lost
\* its last records is reported intact
C27_NoSealIsNoFailure ==
  \A x \in Lines :
    SealOf(verifier.el, x.kind) = {} =>
      /\ x.error = "none" <=>
           \A i \in 1..Len(x.rows) :
             ~StoredLinkBroken(x.rows, i) /\ ~StoredHashBad(x.rows, i)
      /\ x.error = "none" => x.seal = "no_seal"

\* the last two ballots of an unsealed chain of MaxSealed ballots were
\* removed and verify reported the chain intact
C27_Witness ==
  \E x \in Lines :
    /\ SawTampering(x) /\ tampered.field = "removed" /\ ~tampered.sealed
    /\ SealOf(verifier.el, x.kind) = {}
    /\ tampered.position = MaxSealed - 1 /\ Len(x.rows) = MaxSealed - 2
    /\ x.error = "none" /\ x.seal = "no_seal"

\* ------------------------------------------------ claims on the requests
\* the cast of slot r was answered after its SELECT found no credential
CastNotFound(r) ==
  /\ CastDone(r) /\ req[r].tid = NULL
  /\ req[r].resp \notin {"no_election_500", "closed", "vote_preview"}

\* the cast of slot r was answered after its SELECT found a credential that
\* is USED or REVOKED
CastWrongState(r) ==
  /\ CastDone(r) /\ req[r].tid # NULL
  /\ req[r].st \in {"USED", "REVOKED"}

\* C24: a cast that presents an unknown secret and a cast of the same
\* category that presents the secret of a USED or REVOKED credential get the
\* same response
C24_SameOutcome ==
  \A r1, r2 \in Slots :
    (/\ CastNotFound(r1) /\ CastWrongState(r2)
     /\ req[r1].kind = req[r2].kind)
    => req[r1].resp = req[r2].resp

\* the step commits the transaction of the cast in slot r
Commits(r) ==
  /\ req[r].kind \in CastKinds /\ req[r].pc = "commit"
  /\ req'[r].pc = "done" /\ req'[r].committed

\* C29: every recorded ballot names a credential of the ballot's unit and
\* election, and that credential was ACTIVE at the moment the transaction
\* that wrote the ballot committed
C29_BallotByActiveToken ==
  [][/\ \A r \in Slots :
          Commits(r) => vote_tokens[req[r].tid].status = "ACTIVE"
     /\ \A kind \in CastKinds : \A i \in 1..Len(Table(kind)') :
          LET b == Table(kind)'[i] IN
          /\ b.token_id \in 1..Len(vote_tokens')
          /\ vote_tokens'[b.token_id].unit_id = b.unit_id
          /\ vote_tokens'[b.token_id].election_id = b.election_id]_vars

\* a cast committed its ballot while a re-issuance was waiting on the lock
\* of its credential to revoke it
C29_Witness ==
  \E r, s \in Slots :
    /\ CastDone(r) /\ req[r].committed
    /\ req[s].kind \in IssueKinds /\ req[s].pc = "revoke_wait"
    /\ req[r].tid \in req[s].snap
    /\ RowsBy(Table(req[r].kind), req[r].tid) # {}

\* C23: once a ballot record is written no operation changes one of its
\* fields or removes it: not a cast, a (re-)issuance, the activation or the
\* close of an election, and not the deletion of a council list or fiscal
\* list, which fails when ballots name the list
C23_BallotsAreKept ==
  [][\A kind \in CastKinds : \A i \in 1..Len(Table(kind)) :
       /\ i <= Len(Table(kind)')
       /\ Table(kind)'[i] = Table(kind)[i]]_vars

\* the admin asked to delete a list that ballots name and the request
\* failed; the ledger holds a council and a fiscal ballot
C23_Witness ==
  \E r \in Slots :
    /\ req[r].kind = "list_delete" /\ req[r].pc = "done" /\ req[r].err = "23503"
    /\ Len(votes) > 0 /\ Len(fiscal_votes) > 0

\* at instant n election e is active and n lies in its voting window
VotingOpen(e, n) ==
  /\ e \in 1..Len(elections) /\ elections[e].is_active
  /\ elections[e].vote_open_at <= n /\ n <= elections[e].vote_close_at

\* the positions of a cast between its window check and the end of its
\* transaction
Casting == {"select", "insert", "hascouncil", "commit"}

\* C30: a cast request goes on to its transaction only when, at the time of
\* the cast, there is an active election and the time lies inside that
\* election's voting window, and a ballot is recorded only by such a
\* transaction, stamped with that time; a cast outside the window or with no
\* active election ends at once, records nothing and changes no credential
C30_CastInsideWindow ==
  [][/\ \A r \in Slots :
          (req[r].kind = "idle" /\ req'[r].kind \in CastKinds) =>
            IF \E e \in Elections : VotingOpen(e, clock)
            THEN req'[r].pc = "select" /\ VotingOpen(req'[r].el, req'[r].tx)
            ELSE req'[r].pc = "done" /\ db' = db
     /\ \A kind \in CastKinds :
          Len(Table(kind)') > Len(Table(kind)) =>
            \E r \in Slots :
              /\ Commits(r) /\ req[r].kind = kind
              /\ Table(kind)' = Append(Table(kind), BallotRow(req[r]))
              /\ elections[req[r].el].vote_open_at <= req[r].tx
              /\ req[r].tx <= elections[req[r].el].vote_close_at
     /\ \A r \in Slots :
          (req'[r].kind \in CastKinds /\ req'[r].pc \in Casting /\ req[r].kind # "idle")
            => req[r].pc \in Casting /\ req'[r].tx = req[r].tx
                 /\ req'[r].el = req[r].el]_vars

\* a cast with an ACTIVE credential was turned away after the window had
\* ended, and the ledger is empty
C30_Witness ==
  \E r \in Slots :
    /\ CastDone(r) /\ req[r].arg \in Tokens
    /\ vote_tokens[req[r].arg].status = "ACTIVE"
    /\ req[r].resp \in {"closed", "vote_preview"} /\ clock > VoteWindow.close
    /\ votes = <<>> /\ fiscal_votes = <<>>

\* a cast was turned away while no election was active
C30_NoElection ==
  \E r \in Slots :
    /\ CastDone(r) /\ req[r].resp = "no_election_500" /\ ActiveElections = {}

\* C28: in every reachable state at most one election is active, also in
\* the middle of activate, edit and close requests that overlap; an
\* activation that would make a second election active fails and leaves one
\* active
C28_OneActiveElection == Cardinality(ActiveElections) <= 1

\* two activations overlapped: the second one to finish was refused by the
\* unique index and the election of the first one is the active one
C28_Witness ==
  \E r, s \in Slots :
    /\ req[r].kind = "activate" /\ req[r].pc = "done" /\ req[r].err = "23505"
    /\ req[s].kind = "activate" /\ req[s].pc = "done" /\ req[s].err = "-"
    /\ ActiveElections = {req[s].arg} /\ req[r].arg # req[s].arg

C31_ClosedChainIsFinal ==
  [][\A kind \in CastKinds : \A e \in 1..Len(elections) :
       elections[e].closed_at # NULL
         => Len(OfElection(Table(kind)', e)) = Len(OfElection(Table(kind), e))]_vars

\* the approval in slot of rec has passed its UPDATE of the registration and
\* has not yet answered
Approving(rec) ==
  rec.kind = "aprobar" /\ rec.pc \in {"revoke", "revoke_wait", "issue"}

\* C32: a registration leaves PENDING at most once, to APPROVED or to
\* REJECTED, and stays there; an approval goes on to issue a credential only
\* when it found the registration PENDING, and then inserts one credential
\* for it: of two approvals of one registration, overlapping or one after
\* the other, only one issues a credential
C32_ReviewedOnce ==
  [][/\ \A id \in 1..Len(registrations) :
          registrations[id].status # "PENDING"
            => registrations'[id].status = registrations[id].status
     /\ \A r \in Slots :
          (~Approving(req[r]) /\ Approving(req'[r])) =>
            /\ registrations[req'[r].arg].status = "PENDING"
            /\ registrations'[req'[r].arg].status = "APPROVED"
     /\ \A r \in Slots :
          (Approving(req[r]) /\ ~Approving(req'[r])) =>
            /\ vote_tokens' = Append(vote_tokens, vote_tokens'[Len(vote_tokens')])
            /\ vote_tokens'[Len(vote_tokens')].registration_id = req[r].arg
     /\ \A r, s \in Slots :
          (r # s /\ Approving(req'[r]) /\ Approving(req'[s]))
            => req'[r].arg # req'[s].arg]_vars

\* two approvals of one registration overlapped: the second was sent back
\* to the detail page while the first had not yet inserted its credential
C32_Witness ==
  \E r, s \in Slots :
    /\ Approving(req[s])
    /\ req[r].kind = "aprobar" /\ req[r].pc = "done" /\ req[r].arg = req[s].arg
    /\ req[r].resp = "redirect_detail"
    /\ registrations[req[s].arg].status = "APPROVED"

\* the step answers the ballot page that the browser asked for with
\* credential t
PageAnswered(r, t) ==
  /\ req[r].kind = "view" /\ req[r].pc # "done"
  /\ req'[r].pc = "done" /\ req'[r].tid = t

\* C33: once a unit has cast its council ballot and its fiscal ballot with
\* a credential, the ballot page the browser is redirected to leaves that
\* credential USED when it is answered, and every cast that finds the
\* credential USED is turned away and changes no table
C33_RedirectRetires ==
  [][/\ \A r \in Slots : \A t \in Tokens :
          (/\ PageAnswered(r, t)
           /\ RowsBy(votes, t) # {} /\ RowsBy(fiscal_votes, t) # {})
          => vote_tokens'[t].status = "USED"
     /\ \A r \in Slots :
          (/\ req[r].kind \in CastKinds /\ req[r].pc = "select"
           /\ req'[r].tid # NULL /\ req'[r].st = "USED")
          => req'[r].resp = "vote_used" /\ db' = db]_vars
====
